---- MODULE Spec2Model ----
\* A model of hashtable.c: a fixed-capacity chained hash table from C strings
\* to C strings (hash, ht_init, ht_create_entry, ht_set, ht_get,
\* print_hashtable), with the heap it allocates from made explicit.
EXTENDS Integers, Sequences, FiniteSets, TLC

\* ------------------------------------------------------------------
\* Program constants
\* ------------------------------------------------------------------
TABLE_SIZE == 100000
\* sizeof(size_t) in bytes on the LP64 target; the accumulator of hash()
\* wraps modulo 2^(8 * SIZE_BYTES).
SIZE_BYTES == 8
\* The multiplier of the rolling hash.
HASH_MULT == 37
\* sizeof(entry_t): three pointers.
ENTRY_SIZE == 24
NULL == 0
\* An indeterminate pointer value (uninitialised storage).
WILD == -1

\* ------------------------------------------------------------------
\* Bounds of the model
\* ------------------------------------------------------------------
\* Number of blocks the allocator can hand out before malloc must fail.
HeapSize == 10
\* Number of ht_set calls a behaviour makes.
MaxSets == 3
\* Number of those calls in which the allocator is told to refuse a request
\* (it also refuses, unasked, whenever no block is left).
MaxRefused == 1
\* Length of the keys that hash() alone is applied to.
MaxKeyLen == 3

\* ------------------------------------------------------------------
\* Inputs: C strings as sequences of byte values (no embedded NUL)
\* ------------------------------------------------------------------
KeyEmpty == <<>>
\* "Fnd" and "GId": both accumulate to a multiple of TABLE_SIZE, as "" does.
KeyFnd == <<70, 110, 100>>
KeyGId == <<71, 73, 100>>
\* "castilla y le\303\263n" (UTF-8): 16 bytes, two of them >= 0x80, and long
\* enough that the accumulator exceeds 2^64.
KeyLeon == <<99, 97, 115, 116, 105, 108, 108, 97, 32, 121, 32, 108, 101, 195, 179, 110>>
Keys == {KeyEmpty, KeyFnd, KeyGId, KeyLeon}
ValX == <<120>>
ValYZ == <<121, 122>>
Values == {ValX, ValYZ}

\* Keys for hash() alone: every string of at most MaxKeyLen bytes over
\* HashBytes (which holds bytes below and above 0x80), and the keys above.
HashBytes == {1, 97, 127, 128, 255}
HashKeys == UNION {[1..n -> HashBytes] : n \in 0..MaxKeyLen} \cup Keys

Addr == 1..HeapSize
\* Which of the three allocations of one call the allocator refuses.
FailPatterns == [entry : BOOLEAN, key : BOOLEAN, value : BOOLEAN]
NoFail == [entry |-> FALSE, key |-> FALSE, value |-> FALSE]
\* What a store through a null pointer does on the build: the process traps,
\* or the store lands in unrelated memory and execution goes on.
UBOutcomes == {"trap", "continue"}

VARIABLES
    charSigned, \* whether plain char is signed on this build
    pc,         \* "uninit" (hashtable declared), "ready", "crashed", "done"
    entries,    \* hashtable->entries, on the slots a key of Keys can reach
    heap,       \* the allocator's blocks
    call,       \* the call that was made last
    ret,        \* the pointer it returned
    out,        \* the lines it printed
    nsets,      \* number of ht_set calls made
    nrefused,   \* number of ht_set calls with a refused allocation request
    lastSet,    \* history: key -> value of its most recent successful ht_set
    order       \* history: keys in order of their first successful ht_set

vars == <<charSigned, pc, entries, heap, call, ret, out, nsets, nrefused, lastSet, order>>

\* ------------------------------------------------------------------
\* hash (lines 26-35), on little-endian byte limbs so that the arithmetic
\* is exactly size_t arithmetic
\* ------------------------------------------------------------------
\* key[i] converted to size_t in `value * 37 + key[i]`: a plain char is
\* promoted to int and then converted, so a byte >= 0x80 of a signed char
\* becomes 2^64 - (256 - b).
CharToSizeT(b, isSigned) ==
    [i \in 1..SIZE_BYTES |->
        IF i = 1 THEN b
        ELSE IF isSigned /\ b >= 128 THEN 255 ELSE 0]

RECURSIVE MulAddWrongMultiplier(_, _, _, _)
\* MulAdd with the multiplier 31 in place of 37.
MulAddWrongMultiplier(value, add, i, carry) ==
    IF i > SIZE_BYTES THEN <<>>
    ELSE CHOOSE r \in {<<t % 256>> \o MulAddWrongMultiplier(value, add, i + 1, t \div 256) :
                         t \in {value[i] * 31 + add[i] + carry}} : TRUE

RECURSIVE MulAdd(_, _, _, _)
\* value * 37 + add, truncated to SIZE_BYTES bytes (the carry out is lost).
\* (t is bound by a set so that it is computed once per limb.)
MulAdd(value, add, i, carry) ==
    IF i > SIZE_BYTES THEN <<>>
    ELSE CHOOSE r \in {<<t % 256>> \o MulAdd(value, add, i + 1, t \div 256) :
                         t \in {value[i] * HASH_MULT + add[i] + carry}} : TRUE

RECURSIVE HashLoop(_, _, _, _)
\* for (i = 0; i < key_len; ++i) value = value * 37 + key[i];
HashLoop(key, i, value, isSigned) ==
    IF i > Len(key) THEN value
    ELSE CHOOSE r \in {HashLoop(key, i + 1, v, isSigned) :
                         v \in {MulAdd(value, CharToSizeT(key[i], isSigned), 1, 0)}} : TRUE

RECURSIVE ModTableOffByOne(_, _, _)
\* ModTable with the modulus one too large (value % (TABLE_SIZE + 1)).
ModTableOffByOne(value, i, r) ==
    IF i = 0 THEN r
    ELSE CHOOSE q \in {ModTableOffByOne(value, i - 1, m) :
                         m \in {(r * 256 + value[i]) % (TABLE_SIZE + 1)}} : TRUE

RECURSIVE ModTable(_, _, _)
\* value % TABLE_SIZE, most significant limb first.
ModTable(value, i, r) ==
    IF i = 0 THEN r
    ELSE CHOOSE q \in {ModTable(value, i - 1, m) :
                         m \in {(r * 256 + value[i]) % TABLE_SIZE}} : TRUE

\* The body of hash() on a build whose plain char is signed or not.
HashCode(key, isSigned) ==
    ModTable(HashLoop(key, 1, [i \in 1..SIZE_BYTES |-> 0], isSigned), SIZE_BYTES, 0)

\* HashCode tabulated over the keys the table is driven with.
HashOfKeys == [isSigned \in BOOLEAN |-> [k \in Keys |-> HashCode(k, isSigned)]]

\* hash(key) on this build.
hash(key) ==
    IF key \in Keys THEN HashOfKeys[charSigned][key] ELSE HashCode(key, charSigned)

\* The slots the model keeps: those a key of Keys hashes to, and the two ends
\* of the array. ht_set and ht_get touch entries[hash(key)] only.
TrackedSlots == {hash(k) : k \in Keys} \cup {0, TABLE_SIZE - 1}

\* ------------------------------------------------------------------
\* The heap
\* ------------------------------------------------------------------
FreeBlock == [t |-> "free", size |-> 0, key |-> NULL, value |-> NULL, next |-> NULL, s |-> <<>>]

SetMin(S) == CHOOSE x \in S : \A y \in S : x <= y

FreeAddrs(h) == {a \in Addr : h[a].t = "free"}

\* malloc: NULL when refused or when no block is left, else a free block
\* (the lowest one, so a block that was just freed is handed out again).
malloc(h, refuse) ==
    IF refuse \/ FreeAddrs(h) = {} THEN NULL ELSE SetMin(FreeAddrs(h))

\* The heap after malloc(size) returned p: the block's contents are
\* indeterminate.
Allocated(h, p, t, size) ==
    IF p = NULL THEN h
    ELSE [h EXCEPT ![p] = [t |-> t, size |-> size, key |-> WILD, value |-> WILD,
                           next |-> WILD, s |-> <<>>]]

\* free(p); free(NULL) does nothing.
free(h, p) == IF p = NULL THEN h ELSE [h EXCEPT ![p] = FreeBlock]

\* strcpy(dst, src)
strcpy(h, dst, src) == [h EXCEPT ![dst].s = src]

\* StrEq comparing only strlen(a) bytes (strncmp(a, b, strlen(a)) == 0).
StrEqPrefix(a, b) == Len(a) <= Len(b) /\ SubSeq(b, 1, Len(a)) = a

\* strcmp(a, b) == 0
StrEq(a, b) == a = b

\* ------------------------------------------------------------------
\* Reading the table
\* ------------------------------------------------------------------
RECURSIVE Chain(_, _)
\* The nodes reached from entry by following next up to NULL.
Chain(h, entry) ==
    IF entry = NULL THEN <<>> ELSE <<entry>> \o Chain(h, h[entry].next)

KeyOf(h, entry) == h[h[entry].key].s
ValueOf(h, entry) == h[h[entry].value].s

\* Lookup without the key comparison: the first node of the chain answers.
LookupFirst(h, entry, key) ==
    IF entry = NULL THEN NULL ELSE h[entry].value

RECURSIVE Lookup(_, _, _)
\* The loop of ht_get (lines 150-153): the value pointer of the first node
\* whose key compares equal, NULL at the end of the chain.
Lookup(h, entry, key) ==
    IF entry = NULL THEN NULL
    ELSE IF StrEq(KeyOf(h, entry), key) THEN h[entry].value
    ELSE Lookup(h, h[entry].next, key)

\* What ht_get(hashtable, key) returns in the state (e, h).
GetPtr(e, h, key) == Lookup(h, e[hash(key)], key)

\* The string a returned value pointer points at; "NotFound" stands for NULL.
Deref(h, p) == IF p = NULL THEN "NotFound" ELSE h[p].s

RECURSIVE SortedSeq(_)
SortedSeq(S) ==
    IF S = {} THEN <<>> ELSE <<SetMin(S)>> \o SortedSeq(S \ {SetMin(S)})

RECURSIVE Pairs(_, _)
\* The inner loop of print_hashtable (lines 170-171): key=value of every
\* node of the chain, in chain order.
Pairs(h, entry) ==
    IF entry = NULL THEN <<>>
    ELSE <<<<KeyOf(h, entry), ValueOf(h, entry)>>>> \o Pairs(h, h[entry].next)

\* One printed line (lines 169-172): the slot and its key=value pairs.
Line(h, i, entry) == [slot |-> i, pairs |-> Pairs(h, entry)]

RECURSIVE PrintFrom(_, _, _)
\* The loop over the slots (lines 164-174), lowest of the slots S first:
\* empty slots print nothing. (i is bound by a set to be computed once.)
PrintFrom(e, h, S) ==
    IF S = {} THEN <<>>
    ELSE CHOOSE r \in {(IF e[i] = NULL THEN <<>> ELSE <<Line(h, i, e[i])>>)
                          \o PrintFrom(e, h, S \ {i}) : i \in {SetMin(S)}} : TRUE

\* What print_hashtable prints in the state (e, h).
Printed(e, h) == PrintFrom(e, h, DOMAIN e)

\* ------------------------------------------------------------------
\* ht_create_entry (lines 62-88)
\* ------------------------------------------------------------------
\* ht_create_entry without `entry->next = NULL` (line 73): next stays
\* indeterminate.
ht_create_entry_NoNext(h, key, value, f, ub) ==
    LET entry == malloc(h, f.entry)
        h1    == Allocated(h, entry, "entry", ENTRY_SIZE)
        kp    == malloc(h1, f.key)
        h2    == Allocated(h1, kp, "str", Len(key) + 1)
        vp    == malloc(h2, f.value)
        h3    == Allocated(h2, vp, "str", Len(value) + 1)
        failed == entry = NULL \/ kp = NULL \/ vp = NULL
    IN  IF entry = NULL
        THEN \* line 67 stores to entry->key before entry is tested
             IF ub = "trap"
             THEN [heap |-> h2, ret |-> NULL, pc |-> "crashed",
                   allocFailed |-> TRUE, nullDeref |-> TRUE]
             ELSE \* the test of line 69 and of line 77 see entry == NULL
                  [heap |-> h3, ret |-> NULL, pc |-> "ready",
                   allocFailed |-> TRUE, nullDeref |-> TRUE]
        ELSE IF kp # NULL /\ vp # NULL
        THEN [heap |-> [strcpy(strcpy(h3, kp, key), vp, value)
                           EXCEPT ![entry].key = kp, ![entry].value = vp],
              ret |-> entry, pc |-> "ready",
              allocFailed |-> FALSE, nullDeref |-> FALSE]
        ELSE [heap |-> free(free(free(h3, kp), vp), entry),
              ret |-> NULL, pc |-> "ready",
              allocFailed |-> failed, nullDeref |-> FALSE]

ht_create_entry(h, key, value, f, ub) ==
    LET entry == malloc(h, f.entry)
        h1    == Allocated(h, entry, "entry", ENTRY_SIZE)
        kp    == malloc(h1, f.key)
        h2    == Allocated(h1, kp, "str", Len(key) + 1)
        vp    == malloc(h2, f.value)
        h3    == Allocated(h2, vp, "str", Len(value) + 1)
        failed == entry = NULL \/ kp = NULL \/ vp = NULL
    IN  IF entry = NULL
        THEN \* line 67 stores to entry->key before entry is tested
             IF ub = "trap"
             THEN [heap |-> h2, ret |-> NULL, pc |-> "crashed",
                   allocFailed |-> TRUE, nullDeref |-> TRUE]
             ELSE \* the test of line 69 and of line 77 see entry == NULL
                  [heap |-> h3, ret |-> NULL, pc |-> "ready",
                   allocFailed |-> TRUE, nullDeref |-> TRUE]
        ELSE IF kp # NULL /\ vp # NULL
        THEN [heap |-> [strcpy(strcpy(h3, kp, key), vp, value)
                           EXCEPT ![entry].key = kp, ![entry].value = vp,
                                  ![entry].next = NULL],
              ret |-> entry, pc |-> "ready",
              allocFailed |-> FALSE, nullDeref |-> FALSE]
        ELSE [heap |-> free(free(free(h3, kp), vp), entry),
              ret |-> NULL, pc |-> "ready",
              allocFailed |-> failed, nullDeref |-> FALSE]

\* ------------------------------------------------------------------
\* ht_set (lines 101-135)
\* ------------------------------------------------------------------
RECURSIVE FindKeyHeadOnly(_, _, _, _)
\* FindKey comparing the key of the head only (prev = NULL there).
FindKeyHeadOnly(h, entry, prev, key) ==
    IF entry = NULL THEN [found |-> NULL, prev |-> prev]
    ELSE IF prev = NULL /\ StrEq(KeyOf(h, entry), key)
    THEN [found |-> entry, prev |-> prev]
    ELSE FindKeyHeadOnly(h, h[entry].next, entry, key)

RECURSIVE FindKeyPrevStuck(_, _, _, _)
\* FindKey whose prev stays at the head of the chain (`prev = entry` runs in
\* the first round only).
FindKeyPrevStuck(h, entry, prev, key) ==
    IF entry = NULL THEN [found |-> NULL, prev |-> prev]
    ELSE IF StrEq(KeyOf(h, entry), key) THEN [found |-> entry, prev |-> prev]
    ELSE FindKeyPrevStuck(h, h[entry].next, IF prev = NULL THEN entry ELSE prev, key)

RECURSIVE FindKey(_, _, _, _)
\* The do-while of lines 114-131: the node whose key compares equal, or NULL
\* with prev the last node of the chain.
FindKey(h, entry, prev, key) ==
    IF entry = NULL THEN [found |-> NULL, prev |-> prev]
    ELSE IF StrEq(KeyOf(h, entry), key) THEN [found |-> entry, prev |-> prev]
    ELSE FindKey(h, h[entry].next, entry, key)

\* ReplaceValue releasing the old value before the new block is tested.
ReplaceValueFreeFirst(h, entry, value, f) ==
    LET h0  == free(h, h[entry].value)
        tmp == malloc(h0, f.value)
        h1  == Allocated(h0, tmp, "str", Len(value) + 1)
    IN  IF tmp # NULL
        THEN [heap |-> strcpy([h1 EXCEPT ![entry].value = tmp], tmp, value),
              ret |-> entry, pc |-> "ready",
              allocFailed |-> FALSE, nullDeref |-> FALSE]
        ELSE [heap |-> h0, ret |-> NULL, pc |-> "ready",
              allocFailed |-> TRUE, nullDeref |-> FALSE]

\* ReplaceValue without the strcpy of line 123.
ReplaceValueNoCopy(h, entry, value, f) ==
    LET tmp == malloc(h, f.value)
        h1  == Allocated(h, tmp, "str", Len(value) + 1)
    IN  IF tmp # NULL
        THEN [heap |-> [free(h1, h1[entry].value) EXCEPT ![entry].value = tmp],
              ret |-> entry, pc |-> "ready",
              allocFailed |-> FALSE, nullDeref |-> FALSE]
        ELSE [heap |-> h, ret |-> NULL, pc |-> "ready",
              allocFailed |-> TRUE, nullDeref |-> FALSE]

\* ReplaceValue without the free of line 121.
ReplaceValueNoFree(h, entry, value, f) ==
    LET tmp == malloc(h, f.value)
        h1  == Allocated(h, tmp, "str", Len(value) + 1)
    IN  IF tmp # NULL
        THEN [heap |-> strcpy([h1 EXCEPT ![entry].value = tmp], tmp, value),
              ret |-> entry, pc |-> "ready",
              allocFailed |-> FALSE, nullDeref |-> FALSE]
        ELSE [heap |-> h, ret |-> NULL, pc |-> "ready",
              allocFailed |-> TRUE, nullDeref |-> FALSE]

\* Lines 118-127: the key exists, replace its value.
ReplaceValue(h, entry, value, f) ==
    LET tmp == malloc(h, f.value)
        h1  == Allocated(h, tmp, "str", Len(value) + 1)
    IN  IF tmp # NULL
        THEN [heap |-> strcpy([free(h1, h1[entry].value) EXCEPT ![entry].value = tmp],
                              tmp, value),
              ret |-> entry, pc |-> "ready",
              allocFailed |-> FALSE, nullDeref |-> FALSE]
        ELSE [heap |-> h, ret |-> NULL, pc |-> "ready",
              allocFailed |-> TRUE, nullDeref |-> FALSE]

\* SetHead storing the new node in the first slot of the array.
SetHeadFirstSlot(e, h, slot, key, value, f, ub) ==
    LET r == ht_create_entry(h, key, value, f, ub)
    IN  r @@ [entries |-> IF r.pc = "crashed" THEN e ELSE [e EXCEPT ![0] = r.ret]]

\* Lines 108-109: the slot is free.
SetHead(e, h, slot, key, value, f, ub) ==
    LET r == ht_create_entry(h, key, value, f, ub)
    IN  r @@ [entries |-> IF r.pc = "crashed" THEN e ELSE [e EXCEPT ![slot] = r.ret]]

\* LinkTail storing the new node in the slot instead of in prev->next.
LinkTailInSlot(e, h, prev, key, value, f, ub) ==
    LET r == ht_create_entry(h, key, value, f, ub)
    IN  r @@ [entries |-> IF r.pc = "crashed" THEN e
                          ELSE [e EXCEPT ![hash(key)] = r.ret]]

\* LinkTail pushing the new node in front of the chain.
LinkTailPrepend(e, h, prev, key, value, f, ub) ==
    LET r == ht_create_entry(h, key, value, f, ub)
    IN  IF r.ret = NULL THEN r @@ [entries |-> e]
        ELSE [r EXCEPT !.heap = [r.heap EXCEPT ![r.ret].next = e[hash(key)]]] @@
             [entries |-> [e EXCEPT ![hash(key)] = r.ret]]

\* LinkTail returning prev instead of prev->next.
LinkTailReturnPrev(e, h, prev, key, value, f, ub) ==
    LET r == ht_create_entry(h, key, value, f, ub)
    IN  [r EXCEPT !.heap = IF r.pc = "crashed" THEN r.heap
                           ELSE [r.heap EXCEPT ![prev].next = r.ret],
                  !.ret = IF r.ret = NULL THEN NULL ELSE prev] @@
        [entries |-> e]

\* Lines 132-133: the chain holds no such key, link a new node after prev.
LinkTail(e, h, prev, key, value, f, ub) ==
    LET r == ht_create_entry(h, key, value, f, ub)
    IN  [r EXCEPT !.heap = IF r.pc = "crashed" THEN r.heap
                           ELSE [r.heap EXCEPT ![prev].next = r.ret]] @@
        [entries |-> e]

\* The whole call, as the record of its results.
SetResult(e, h, key, value, f, ub) ==
    LET slot  == hash(key)
        entry == e[slot]
    IN  IF entry = NULL
        THEN SetHead(e, h, slot, key, value, f, ub)
        ELSE LET w == FindKey(h, entry, NULL, key)
             IN  IF w.found # NULL
                 THEN ReplaceValue(h, w.found, value, f) @@ [entries |-> e]
                 ELSE LinkTail(e, h, w.prev, key, value, f, ub)

ht_set(key, value, f, ub) ==
    /\ pc = "ready"
    /\ nsets < MaxSets
    /\ f = NoFail \/ nrefused < MaxRefused
    /\ \E r \in {SetResult(entries, heap, key, value, f, ub)} :
           /\ entries' = r.entries
           /\ heap' = r.heap
           /\ pc' = r.pc
           /\ ret' = r.ret
           /\ call' = [op |-> "set", key |-> key, value |-> value, slot |-> hash(key),
                       allocFailed |-> r.allocFailed, nullDeref |-> r.nullDeref]
           /\ lastSet' = IF r.ret = NULL THEN lastSet
                         ELSE [k \in DOMAIN lastSet \cup {key} |->
                                 IF k = key THEN value ELSE lastSet[k]]
           /\ order' = IF r.ret = NULL \/ key \in DOMAIN lastSet THEN order
                       ELSE Append(order, key)
    /\ out' = <<>>
    /\ nsets' = nsets + 1
    /\ nrefused' = IF f = NoFail THEN nrefused ELSE nrefused + 1
    /\ UNCHANGED charSigned

\* ------------------------------------------------------------------
\* ht_get (lines 146-154), print_hashtable (lines 162-175), ht_init (42-47)
\* ------------------------------------------------------------------
\* ht_get that also moves the node it found to the head of the slot.
ht_get_MoveToHead(key) ==
    /\ pc = "ready"
    /\ ret' = GetPtr(entries, heap, key)
    /\ entries' = IF FindKey(heap, entries[hash(key)], NULL, key).found = NULL
                  THEN entries
                  ELSE [entries EXCEPT ![hash(key)] =
                           FindKey(heap, entries[hash(key)], NULL, key).found]
    /\ call' = [op |-> "get", key |-> key, value |-> <<>>, slot |-> hash(key),
                allocFailed |-> FALSE, nullDeref |-> FALSE]
    /\ out' = <<>>
    /\ UNCHANGED <<charSigned, pc, heap, nsets, nrefused, lastSet, order>>

ht_get(key) ==
    /\ pc = "ready"
    /\ ret' = GetPtr(entries, heap, key)
    /\ call' = [op |-> "get", key |-> key, value |-> <<>>, slot |-> hash(key),
                allocFailed |-> FALSE, nullDeref |-> FALSE]
    /\ out' = <<>>
    /\ UNCHANGED <<charSigned, pc, entries, heap, nsets, nrefused, lastSet, order>>

print_hashtable ==
    /\ pc = "ready"
    /\ out' = Printed(entries, heap)
    /\ ret' = NULL
    /\ call' = [op |-> "print", key |-> <<>>, value |-> <<>>, slot |-> 0,
                allocFailed |-> FALSE, nullDeref |-> FALSE]
    /\ UNCHANGED <<charSigned, pc, entries, heap, nsets, nrefused, lastSet, order>>

\* ht_init whose loop stops one slot early (i < TABLE_SIZE - 1).
ht_init_StopEarly ==
    /\ pc = "uninit"
    /\ entries' = [i \in DOMAIN entries |->
                       IF i = TABLE_SIZE - 1 THEN entries[i] ELSE NULL]
    /\ pc' = "ready"
    /\ call' = [op |-> "init", key |-> <<>>, value |-> <<>>, slot |-> 0,
                allocFailed |-> FALSE, nullDeref |-> FALSE]
    /\ ret' = NULL
    /\ out' = <<>>
    /\ UNCHANGED <<charSigned, heap, nsets, nrefused, lastSet, order>>

ht_init ==
    /\ pc = "uninit"
    /\ entries' = [i \in DOMAIN entries |-> NULL]
    /\ pc' = "ready"
    /\ call' = [op |-> "init", key |-> <<>>, value |-> <<>>, slot |-> 0,
                allocFailed |-> FALSE, nullDeref |-> FALSE]
    /\ ret' = NULL
    /\ out' = <<>>
    /\ UNCHANGED <<charSigned, heap, nsets, nrefused, lastSet, order>>

\* ------------------------------------------------------------------
\* The state machine
\* ------------------------------------------------------------------
\* `hashtable_t hashtable;` in main: the array holds indeterminate pointers
\* until ht_init has run; nothing is allocated yet.
Init ==
    /\ charSigned \in BOOLEAN
    /\ pc = "uninit"
    /\ entries \in [TrackedSlots -> {NULL, WILD}]
    /\ heap = [a \in Addr |-> FreeBlock]
    /\ call = [op |-> "none", key |-> <<>>, value |-> <<>>, slot |-> 0,
               allocFailed |-> FALSE, nullDeref |-> FALSE]
    /\ ret = NULL
    /\ out = <<>>
    /\ nsets = 0
    /\ nrefused = 0
    /\ lastSet = [k \in {} |-> <<>>]
    /\ order = <<>>

\* The table is initialised and written, the allocator refusing at will.
Next ==
    \/ ht_init
    \/ \E key \in Keys, value \in Values, f \in FailPatterns, ub \in UBOutcomes :
          ht_set(key, value, f, ub)

Spec == Init /\ [][Next]_vars

\* The table is initialised, written and read; the allocator refuses only
\* when no block is left.
ReadNext ==
    \/ ht_init
    \/ \E key \in Keys, value \in Values : ht_set(key, value, NoFail, "trap")
    \/ \E key \in Keys : ht_get(key)
    \/ print_hashtable

ReadSpec == Init /\ [][ReadNext]_vars

\* ------------------------------------------------------------------
\* main (lines 177-202)
\* ------------------------------------------------------------------
\* `return 0;` after print_hashtable (lines 200-201): the lifetime of the
\* automatic `hashtable` ends. Nothing is freed on the way: the blocks stay
\* allocated, and entries keeps what the array held, to name them.
main_return ==
    /\ pc = "ready"
    /\ call.op = "print"
    /\ pc' = "done"
    /\ call' = [op |-> "return", key |-> <<>>, value |-> <<>>, slot |-> 0,
                allocFailed |-> FALSE, nullDeref |-> FALSE]
    /\ ret' = NULL
    /\ UNCHANGED <<charSigned, entries, heap, out, nsets, nrefused, lastSet, order>>

\* main: ht_init, then ht_set calls, then print_hashtable, then return.
MainNext ==
    \/ ht_init
    \/ /\ call.op # "print"
       /\ \E key \in Keys, value \in Values : ht_set(key, value, NoFail, "trap")
    \/ /\ call.op # "print"
       /\ print_hashtable
    \/ main_return

MainSpec == Init /\ [][MainNext]_vars

\* ------------------------------------------------------------------
\* hash() called on its own
\* ------------------------------------------------------------------
\* The key is drawn at the start; nothing else of the program runs.
HashInit ==
    /\ charSigned \in BOOLEAN
    /\ pc = "uninit"
    /\ entries = [i \in TrackedSlots |-> WILD]
    /\ heap = [a \in Addr |-> FreeBlock]
    /\ \E key \in HashKeys :
          call = [op |-> "none", key |-> key, value |-> <<>>, slot |-> 0,
                  allocFailed |-> FALSE, nullDeref |-> FALSE]
    /\ ret = NULL
    /\ out = <<>>
    /\ nsets = 0
    /\ nrefused = 0
    /\ lastSet = [k \in {} |-> <<>>]
    /\ order = <<>>

hash_call ==
    /\ call' = [call EXCEPT !.op = "hash", !.slot = hash(call.key)]
    /\ UNCHANGED <<charSigned, pc, entries, heap, ret, out, nsets, nrefused, lastSet, order>>

HashNext == hash_call

HashSpec == HashInit /\ [][HashNext]_vars

\* ------------------------------------------------------------------
\* Observations used by the properties
\* ------------------------------------------------------------------
\* get(k) as its caller sees it: the value string, or "NotFound".
Get(k) == Deref(heap, GetPtr(entries, heap, k))

RECURSIVE Flatten(_)
\* The printed lines as one sequence of <<slot, key, value>>.
Flatten(lines) ==
    IF lines = <<>> THEN <<>>
    ELSE [n \in 1..Len(Head(lines).pairs) |->
            <<Head(lines).slot, Head(lines).pairs[n][1], Head(lines).pairs[n][2]>>]
         \o Flatten(Tail(lines))

\* What enumerate yields (the lines are bound by a set to be computed once).
Enumeration == CHOOSE r \in {Flatten(lines) : lines \in {Printed(entries, heap)}} : TRUE
EnumKeys == CHOOSE r \in {[n \in 1..Len(en) |-> en[n][2]] : en \in {Enumeration}} : TRUE

\* Everything a caller can observe of the map through get and enumerate.
Observable == <<[k \in Keys |-> Get(k)], Enumeration>>

\* The step is a call of ht_set / a call of ht_set that returned.
SetStep == nsets' = nsets + 1
SetReturned == SetStep /\ pc' = "ready"

\* The enumeration the history predicts: slots ascending, within a slot the
\* keys in order of first successful insertion, each with its latest value.
RECURSIVE ExpectedFrom(_)
ExpectedFrom(slots) ==
    IF slots = <<>> THEN <<>>
    ELSE SelectSeq([n \in 1..Len(order) |-> <<hash(order[n]), order[n], lastSet[order[n]]>>],
                   LAMBDA t : t[1] = Head(slots))
         \o ExpectedFrom(Tail(slots))

ExpectedEnumeration ==
    CHOOSE r \in {ExpectedFrom(slots) :
                     slots \in {SortedSeq({hash(k) : k \in DOMAIN lastSet})}} : TRUE

\* ------------------------------------------------------------------
\* Properties
\* ------------------------------------------------------------------
\* C1. Failure atomicity: when ht_set returns NULL, whichever path it took,
\* get of every key and the enumeration are what they were before the call.
C1_FailureAtomicity ==
    [][(SetReturned /\ ret' = NULL) => Observable' = Observable]_vars

\* C1 case: an update of an existing key to a different value returned NULL.
C1_Witness ==
    /\ call.op = "set" /\ pc = "ready" /\ ret = NULL
    /\ call.key \in DOMAIN lastSet
    /\ lastSet[call.key] # call.value
    /\ Get(call.key) = lastSet[call.key]

\* C2. Whenever an allocation needed by ht_set fails, ht_set returns NULL to
\* its caller, without a crash and without an access through a null pointer.
C2_AllocationFailureSignalled ==
    (call.op = "set" /\ call.allocFailed)
        => (pc = "ready" /\ ret = NULL /\ ~call.nullDeref)

\* C3. Lookup correctness: for every key with a successful ht_set, get
\* returns the value of the most recent successful one.
C3_LookupCorrect ==
    pc # "uninit" => \A k \in DOMAIN lastSet : Get(k) = lastSet[k]

\* C3 case: two colliding keys are stored and the third call updated one.
C3_Witness ==
    /\ call.op = "set" /\ ret # NULL /\ nsets = 3
    /\ Len(order) = 2 /\ hash(order[1]) = hash(order[2])
    /\ Get(call.key) = call.value
    /\ Get(order[1]) # Get(order[2])

\* C4. Key uniqueness: no two enumerated pairs have the same key.
C4_KeysUnique ==
    pc # "uninit" =>
        \A ks \in {EnumKeys} : \A i, j \in 1..Len(ks) : ks[i] = ks[j] => i = j

\* C4 case: a key deeper in a chain than its head was set a second time.
C4_Witness ==
    /\ call.op = "set" /\ ret # NULL /\ ret # entries[call.slot]
    /\ Len(order) = 2 /\ nsets = 3
    /\ Len(EnumKeys) = 2

\* C5. Update semantics: a successful ht_set of a key that an earlier ht_set
\* stored leaves one entry for the key, holding the new value, and leaves the
\* number and the positions of all entries as they were.
C5_UpdateInPlace ==
    [][(SetReturned /\ ret' # NULL /\ call'.key \in DOMAIN lastSet)
         => /\ EnumKeys' = EnumKeys
            /\ \A k \in Keys : k = call'.key => Get(k)' = call'.value
            /\ \A ks \in {EnumKeys'} :
                 Cardinality({n \in 1..Len(ks) : ks[n] = call'.key}) = 1]_vars

\* C5 case: set(k, v1) then set(k, v2) with v1 # v2, both successful.
C5_Witness ==
    /\ call.op = "set" /\ ret # NULL /\ nsets = 2 /\ nrefused = 0
    /\ Len(order) = 1 /\ order[1] = call.key
    /\ call.value = ValYZ /\ Get(call.key) = ValYZ

\* C6. Absence: get is NotFound for every key with no successful ht_set,
\* whether it was never passed to ht_set or only to calls that failed.
C6_AbsentNotFound ==
    pc # "uninit" =>
        \A k \in Keys \ DOMAIN lastSet : GetPtr(entries, heap, k) = NULL

\* C6 case: the only ht_set of a key failed, in a slot that holds another key.
C6_Witness ==
    /\ call.op = "set" /\ pc = "ready" /\ ret = NULL
    /\ call.key \notin DOMAIN lastSet
    /\ entries[call.slot] # NULL
    /\ Get(call.key) = "NotFound"

\* C7. Collision independence: ht_set(k, v) leaves get(k2) as it was for
\* every other key k2, and afterwards any two stored keys of one slot are
\* each retrievable with their own latest value.
C7_OtherKeysUntouched ==
    [][SetStep
         => /\ \A k2 \in Keys \ {call'.key} :
                 /\ GetPtr(entries, heap, k2)' = GetPtr(entries, heap, k2)
                 /\ Get(k2)' = Get(k2)
            /\ \A k1, k2 \in DOMAIN lastSet' :
                 (k1 # k2 /\ hash(k1) = hash(k2))
                     => Get(k1)' = lastSet'[k1] /\ Get(k2)' = lastSet'[k2]]_vars

\* C7 case: sets interleaved on two colliding keys, which hold different values.
C7_Witness ==
    /\ call.op = "set" /\ ret # NULL /\ nsets = 3 /\ nrefused = 0
    /\ Len(order) = 2 /\ hash(order[1]) = hash(order[2])
    /\ call.key = order[1]
    /\ Get(order[1]) = ValYZ /\ Get(order[2]) = ValX

\* C8. Read-only reads: ht_get and print_hashtable leave the slot array and
\* every block as they are, return what the state holds, and so return the
\* same for every key until the next ht_set.
C8_ReadsReadOnly ==
    [][(call'.op \in {"get", "print"})
         => /\ entries' = entries /\ heap' = heap
            /\ call'.op = "get" => ret' = GetPtr(entries, heap, call'.key)
            /\ call'.op = "print" => out' = Printed(entries, heap)
            /\ Observable' = Observable]_vars

\* C8 case: a get that found its key, in a chain of two.
C8_Witness ==
    /\ call.op = "get" /\ ret # NULL
    /\ Len(Chain(heap, entries[call.slot])) = 2
    /\ ret = heap[Chain(heap, entries[call.slot])[2]].value

\* C9. Enumeration order: print_hashtable yields every stored pair once,
\* slots ascending, within a slot in order of first successful insertion; so
\* a new colliding key is at the tail and an update keeps the key's place.
C9_EnumerationOrder ==
    /\ call.op = "print" => Flatten(out) = ExpectedEnumeration
    /\ pc # "uninit" => Enumeration = ExpectedEnumeration

\* C9 case: three keys in two slots were printed, one slot with a chain.
C9_Witness ==
    /\ call.op = "print" /\ Len(out) = 2
    /\ Len(order) = 3
    /\ \E n \in 1..2 : Len(out[n].pairs) = 2

\* C10. Hash range and determinism: hash(key) is in 0..TABLE_SIZE-1 for every
\* key, and a repeated call with the same key returns the same slot.
C10_HashInRange ==
    [][/\ call'.slot \in 0..(TABLE_SIZE - 1)
       /\ call.op = "hash" => call'.slot = call.slot]_vars

\* C10 case: a key with a byte >= 0x80, on a build with signed char.
C10_Witness ==
    /\ call.op = "hash" /\ charSigned
    /\ \E n \in 1..Len(call.key) : call.key[n] >= 128
    /\ call.slot \in 1..(TABLE_SIZE - 1)

\* C11. Result of a successful set: a returned ht_set yields a non-null
\* pointer exactly when none of its allocations failed, and that pointer is
\* a node of the chain of slot hash(key) whose key is key and whose value is
\* value.
C11_SetResult ==
    (call.op = "set" /\ pc = "ready") =>
        /\ ret # NULL <=> ~call.allocFailed
        /\ ret # NULL =>
              /\ \E c \in {Chain(heap, entries[hash(call.key)])} :
                    \E n \in 1..Len(c) : c[n] = ret
              /\ KeyOf(heap, ret) = call.key
              /\ ValueOf(heap, ret) = call.value

\* C11 case: the call linked a new node behind the head of its slot.
C11_Witness ==
    /\ call.op = "set" /\ ret # NULL /\ nsets = 2
    /\ Len(order) = 2 /\ order[2] = call.key
    /\ entries[call.slot] # ret
    /\ heap[entries[call.slot]].next = ret

\* C12. Initialisation: ht_init can always run on a declared table and does
\* not fail; after it every slot is NULL, nothing is allocated, get finds no
\* key and the enumeration is empty, whatever the storage held before.
C12_InitEmpty ==
    /\ pc = "uninit" => ENABLED ht_init
    /\ call.op = "init" =>
          /\ pc = "ready"
          /\ \A i \in DOMAIN entries : entries[i] = NULL
          /\ {0, TABLE_SIZE - 1} \subseteq DOMAIN entries
          /\ FreeAddrs(heap) = Addr
          /\ \A k \in Keys : Get(k) = "NotFound"
          /\ Enumeration = <<>>

\* C12 case: ht_init has run and both ends of the array are empty.
C12_Witness ==
    /\ call.op = "init" /\ pc = "ready" /\ nsets = 0
    /\ entries[0] = NULL /\ entries[TABLE_SIZE - 1] = NULL
    /\ Printed(entries, heap) = <<>>

\* ------------------------------------------------------------------
\* The rolling hash computed on the integers, as a reference for hash()
\* ------------------------------------------------------------------
RECURSIVE PowMod(_, _, _)
\* b^e mod m
PowMod(b, e, m) == IF e = 0 THEN 1 % m ELSE (PowMod(b, e - 1, m) * b) % m

RECURSIVE Horner(_, _, _)
\* acc = acc * 37 + byte over the first n bytes of key, as an integer; a byte
\* >= 0x80 counts as b - 256 when asChar (the value of a signed char).
Horner(key, n, asChar) ==
    IF n = 0 THEN 0
    ELSE Horner(key, n - 1, asChar) * HASH_MULT
         + (IF asChar /\ key[n] >= 128 THEN key[n] - 256 ELSE key[n])

\* The integer reduced modulo 2^(8 * SIZE_BYTES) and then modulo TABLE_SIZE:
\* a negative integer -x wraps to 2^w - x (keys short enough that |acc| < 2^w).
PolyHash(key, asChar) ==
    CHOOSE r \in {IF acc >= 0 THEN acc % TABLE_SIZE
                  ELSE (PowMod(2, 8 * SIZE_BYTES, TABLE_SIZE) + acc) % TABLE_SIZE :
                    acc \in {Horner(key, Len(key), asChar)}} : TRUE

\* The slot of "castilla y le\303\263n", whose accumulator exceeds 2^64,
\* computed outside the model with arbitrary-precision integers.
LeonSlot(asChar) == IF asChar THEN 74839 ELSE 34775

\* The reference for a key: by Horner on the integers while they hold the
\* accumulator (|acc| < 2^31), by the precomputed slot for the long key;
\* no slot (-1) for a key that neither covers.
Reference(key, asChar) ==
    IF Len(key) <= MaxKeyLen + 1 THEN PolyHash(key, asChar)
    ELSE IF key = KeyLeon THEN LeonSlot(asChar)
    ELSE -1

\* C13 as stated. Hash algorithm: hash(key) is the rolling hash
\* acc = acc * 37 + byte over the key's bytes, each byte taken as its byte
\* value 0..255, wrapping modulo 2^64, reduced modulo TABLE_SIZE, also for
\* keys with bytes >= 0x80.
C13_HashByteValues ==
    call.op = "hash" => call.slot = Reference(call.key, FALSE)

\* C13 as amended. hash(key) is that rolling hash with each byte taken as
\* the value of key[i] as a plain char: its byte value where plain char is
\* unsigned, and its byte value minus 256 for a byte >= 0x80 where plain char
\* is signed (the sum wrapping modulo 2^64).
C13_HashPlainChar ==
    call.op = "hash" => call.slot = Reference(call.key, charSigned)

\* C13 case: a key with a byte >= 0x80 on a build with signed char, hashed
\* to another slot than its byte values give.
C13_Witness ==
    /\ call.op = "hash" /\ charSigned
    /\ \E n \in 1..Len(call.key) : call.key[n] >= 128
    /\ call.slot = Reference(call.key, TRUE)
    /\ call.slot # Reference(call.key, FALSE)

\* ------------------------------------------------------------------
\* Storage: the blocks that are allocated, and those the table's nodes hold
\* ------------------------------------------------------------------
\* The blocks malloc has handed out and free has not taken back.
LiveBlocks(h) == Addr \ FreeAddrs(h)

\* The nodes reachable from the slots.
Nodes(e, h) ==
    UNION {{c[n] : n \in 1..Len(c)} : c \in {Chain(h, e[i]) : i \in DOMAIN e}}

\* Every node with its key block and its value block.
OwnedBlocks(e, h) ==
    UNION {{n, h[n].key, h[n].value} : n \in Nodes(e, h)}

\* C14. Storage accounting: after every ht_set that returned, the allocated
\* blocks are exactly the nodes of the table with one key block and one value
\* block each; a replacement obtains the new value block before it frees the
\* old one, which is free afterwards; a failed call leaves allocated exactly
\* what was allocated before it.
C14_StorageAccounting ==
    [][SetReturned =>
         \A live \in {LiveBlocks(heap')}, nodes \in {Nodes(entries', heap')} :
            /\ live = OwnedBlocks(entries', heap')
            /\ Cardinality(live) = 3 * Cardinality(nodes)
            /\ ret' = NULL => live = LiveBlocks(heap)
            /\ (ret' # NULL /\ call'.key \in DOMAIN lastSet) =>
                  \A old \in {GetPtr(entries, heap, call'.key)} :
                     /\ heap'[ret'].value # old
                     /\ old \notin live
                     /\ live = (LiveBlocks(heap) \ {old}) \cup {heap'[ret'].value}]_vars

\* The nodes of the chain of slot i.
SlotNodes(e, h, i) ==
    CHOOSE r \in {{c[n] : n \in 1..Len(c)} : c \in {Chain(h, e[i])}} : TRUE

\* C15. Slot placement: once the table is initialised, every node in the
\* chain of slot i holds a key that hashes to i; a node that is in a slot is
\* in the same slot, with the same key, after every step; the set of slots
\* does not change.
C15_SlotPlacement ==
    [][/\ DOMAIN entries' = DOMAIN entries
       /\ pc' # "uninit" =>
             \A i \in DOMAIN entries' :
                \A n \in SlotNodes(entries', heap', i) : hash(KeyOf(heap', n)) = i
       /\ pc # "uninit" =>
             \A i \in DOMAIN entries :
                \A n \in SlotNodes(entries, heap, i) :
                   /\ n \in SlotNodes(entries', heap', i)
                   /\ KeyOf(heap', n) = KeyOf(heap, n)]_vars

\* C15 case: a chain of two in slot 0 and a node in the slot of the long key.
C15_Witness ==
    /\ call.op = "set" /\ ret # NULL /\ nsets = 3
    /\ Cardinality(SlotNodes(entries, heap, 0)) = 2
    /\ hash(KeyLeon) # 0
    /\ Cardinality(SlotNodes(entries, heap, hash(KeyLeon))) = 1

RECURSIVE Walk(_, _, _)
\* The pointers a chain walk visits from p, the one it stops at included: it
\* stops at NULL, at a pointer that is no block, or after fuel nodes.
Walk(h, p, fuel) ==
    IF p = NULL \/ p \notin Addr \/ fuel = 0 THEN <<p>>
    ELSE <<p>> \o Walk(h, h[p].next, fuel - 1)

\* C16. Chain well-formedness: once the table is initialised, also after
\* failed ht_set calls, the walk of every slot goes through allocated nodes,
\* no node twice, and reaches NULL after at most HeapSize nodes; no node is in
\* the chains of two slots.
C16_ChainsWellFormed ==
    pc # "uninit" =>
        \A i \in DOMAIN entries :
           \A w \in {Walk(heap, entries[i], HeapSize + 1)} :
              /\ w[Len(w)] = NULL
              /\ \A m \in 1..(Len(w) - 1) :
                    /\ w[m] \in Addr /\ heap[w[m]].t = "entry"
                    /\ \A n \in 1..(Len(w) - 1) : w[m] = w[n] => m = n
                    /\ \A j \in DOMAIN entries \ {i} :
                          \A v \in {Walk(heap, entries[j], HeapSize + 1)} :
                             \A n \in 1..Len(v) : v[n] # w[m]

\* C16 case: a call that was to link a third node failed on a chain of two.
C16_Witness ==
    /\ call.op = "set" /\ pc = "ready" /\ ret = NULL /\ nsets = 3
    /\ call.key \notin DOMAIN lastSet
    /\ Len(Walk(heap, entries[call.slot], HeapSize + 1)) = 3

\* C17. Monotonic key set: on every step of an initialised table, a key that
\* get finds is still found afterwards, every node of the table is still a
\* node of it with the same key, and the number of nodes does not decrease;
\* so every key with a successful ht_set is found in every later state.
C17_KeysStay ==
    [][pc # "uninit" =>
         /\ \A k \in Keys :
               \A found \in {GetPtr(entries', heap', k)} :
                  (k \in DOMAIN lastSet' \/ GetPtr(entries, heap, k) # NULL)
                      => found # NULL
         /\ \A old \in {Nodes(entries, heap)}, new \in {Nodes(entries', heap')} :
               /\ old \subseteq new
               /\ Cardinality(old) <= Cardinality(new)
               /\ \A n \in old : KeyOf(heap', n) = KeyOf(heap, n)]_vars

\* C17 case: of three calls one was refused an allocation and two stored
\* colliding keys; the key stored first is still found with its value.
C17_Witness ==
    /\ call.op = "set" /\ ret # NULL /\ nsets = 3 /\ nrefused = 1
    /\ Len(order) = 2 /\ call.key = order[2]
    /\ hash(order[1]) = hash(order[2])
    /\ Get(order[1]) = lastSet[order[1]]

\* C18. Release on destruction: when the driver that created and populated
\* the table has returned, no node, key block or value block of the table is
\* still allocated.
C18_ReleasedAtEnd ==
    pc = "done" => OwnedBlocks(entries, heap) \cap LiveBlocks(heap) = {}

\* The node that holds key (what a successful ht_set of key returns), or NULL.
NodeOf(e, h, key) == FindKey(h, e[hash(key)], NULL, key).found

\* C19. Reference stability: on every ht_set step, for every stored key k,
\* the node of k stays the node of k and stays allocated, and a successful
\* ht_set of k returns it; the value pointer ht_get(k) gives stays the value
\* pointer of k, its block untouched and holding k's latest value, unless the
\* step is a successful ht_set of k, which frees that block and gives k
\* another value pointer.
C19_ReferencesStable ==
    [][SetStep =>
         \A k \in Keys :
            \A n \in {NodeOf(entries, heap, k)}, p \in {GetPtr(entries, heap, k)} :
               n # NULL =>
                  /\ NodeOf(entries', heap', k) = n
                  /\ heap'[n].t = "entry"
                  /\ IF call'.key = k /\ ret' # NULL
                     THEN /\ ret' = n
                          /\ heap'[p].t = "free"
                          /\ GetPtr(entries', heap', k) # p
                     ELSE /\ GetPtr(entries', heap', k) = p
                          /\ heap'[p] = heap[p]
                          /\ heap'[p].t = "str"
                          /\ heap'[p].s = lastSet'[k]]_vars

\* C19 case: one key, set three times, one of the calls refused its
\* allocation; the node is the head it always was, with the latest value.
C19_Witness ==
    /\ call.op = "set" /\ ret # NULL /\ nsets = 3 /\ nrefused = 1
    /\ Len(order) = 1 /\ call.key = order[1]
    /\ ret = entries[call.slot]
    /\ heap[heap[ret].value].s = call.value

====
